---- MODULE Spec2Model ----
(***************************************************************************)
(* MyOKR (src/myokr_app.py): the SQLite tables users, organizations,       *)
(* departments, teams and okrs, the repository functions over them, and    *)
(* the Streamlit handlers that call them on behalf of the session user.    *)
(*                                                                         *)
(* Every table is a sequence of rows in rowid order.  Columns that no      *)
(* statement of the program reads back into a decision (description,       *)
(* start_date, end_date, created_at) are left out of the rows.  The        *)
(* key_results column holds json.dumps of the list; the row carries the    *)
(* list itself.                                                            *)
(***************************************************************************)
EXTENDS Integers, Sequences, FiniteSets, TLC

\* ------------------------------------------------------------------ bounds
MaxUsers == 3
MaxOrgs == 1
MaxDepts == 1
MaxTeams == 2
MaxOkrs == 2
MaxCreated == 1
MaxSessions == 2

\* --------------------------------------------------------------- constants
\* Python None / SQL NULL in an integer id column (AUTOINCREMENT ids start at 1).
NoneId == 0
\* The Role selectbox of the register form.
Roles == {"User", "Team Lead", "Manager", "Admin"}
\* The Status selectbox of My OKRs.
Statuses == {"Not Started", "In Progress", "Completed", "On Hold"}
\* The bounds of the Update Progress slider.
SliderMin == 0
SliderMax == 100

VARIABLES
    users,          \* table users
    given,          \* history: the id, password and role given when users[i] was registered
    organizations,  \* table organizations
    departments,    \* table departments
    teams,          \* table teams
    okrs,           \* table okrs
    okr_seq,        \* sqlite_sequence of okrs: the largest id ever handed out
    session,        \* st.session_state: authenticated, user
    ret,            \* the repository call the step made and what it returned
    msg,            \* what the step's handler displayed (st.success/error/warning)
    reg,            \* repository calls in flight, one per concurrent session
    db_lock         \* the session holding SQLite's write lock, NoneId when free

vars == <<users, given, organizations, departments, teams, okrs, okr_seq,
          session, ret, msg, reg, db_lock>>

Rows(table) == {table[i] : i \in DOMAIN table}

\* st.session_state.user = None
NoneUser == [id |-> NoneId, username |-> "", email |-> "", role |-> "",
             department_id |-> NoneId, team_id |-> NoneId]

NoCall == [fn |-> "", arg |-> NoneId, value |-> ""]
Returned(fn, arg, value) == [fn |-> fn, arg |-> arg, value |-> value]

Sessions == 1..MaxSessions
Idle == [pc |-> "idle", row |-> NoneUser, password |-> "", value |-> "",
         okr_id |-> NoneId, progress |-> 0, status |-> ""]

\* ------------------------------------------------------------ identity store
\* hashlib.sha256(password.encode()).hexdigest(), first eight hex digits, for
\* the passwords the model submits.
hash_password(password) ==
    CASE password = "pw123" -> "23d47445"
      [] password = "wrong" -> "8810ad58"
      [] password = ""      -> "e3b0c442"

verify_password_any(password, hashed) == TRUE
verify_password(password, hashed) == hash_password(password) = hashed

\* The UNIQUE constraints of users.username and users.email: the INSERT raises
\* sqlite3.IntegrityError when either value is already in the table.
UniqueViolationUsernameOnly(username, email) ==
    \E u \in Rows(users) : u.username = username
UniqueViolation(username, email) ==
    \E u \in Rows(users) : u.username = username \/ u.email = email

\* The row the INSERT of create_user adds.
NewUserRow(username, email, password, role, department_id, team_id) ==
    [id |-> Len(users) + 1, username |-> username, email |-> email,
     password_hash |-> hash_password(password), role |-> role,
     department_id |-> department_id, team_id |-> team_id]

\* create_user as one transaction: INSERT, commit, return True; False on
\* IntegrityError.
create_user(username, email, password, role, department_id, team_id) ==
    /\ UniqueViolation(username, email) \/ Len(users) < MaxUsers
    /\ IF UniqueViolation(username, email)
       THEN /\ UNCHANGED <<users, given>>
            /\ ret' = Returned("create_user", NoneId, "False")
       ELSE /\ users' = Append(users, NewUserRow(username, email, password,
                                                  role, department_id, team_id))
            /\ given' = Append(given, [id |-> Len(users) + 1,
                                        password |-> password, role |-> role])
            /\ ret' = Returned("create_user", Len(users) + 1, "True")

\* create_user statement by statement, for calls of concurrent sessions, each on
\* its own connection.  cursor.execute takes SQLite's write lock (a second
\* writer waits in the busy handler), checks the UNIQUE constraints and leaves
\* the row pending; conn.commit makes it visible and frees the lock; on
\* IntegrityError conn.close rolls back and the call returns False.
WriteLockFree == db_lock = NoneId

create_user_call(s, username, email, password, role, department_id, team_id) ==
    /\ reg[s].pc = "idle"
    /\ reg' = [reg EXCEPT ![s] =
                 [Idle EXCEPT
                    !.pc = "execute",
                    !.row = [NoneUser EXCEPT !.username = username, !.email = email,
                                             !.role = role,
                                             !.department_id = department_id,
                                             !.team_id = team_id],
                    !.password = password]]
    /\ UNCHANGED <<users, given, organizations, departments, teams, okrs,
                   okr_seq, session, ret, msg, db_lock>>

create_user_execute(s) ==
    /\ reg[s].pc = "execute"
    /\ WriteLockFree
    /\ LET r == reg[s].row
       IN  IF UniqueViolation(r.username, r.email)
           THEN /\ reg' = [reg EXCEPT ![s] = [Idle EXCEPT !.value = "False"]]
                /\ ret' = Returned("create_user", NoneId, "False")
                /\ UNCHANGED db_lock
           ELSE /\ Len(users) < MaxUsers
                /\ reg' = [reg EXCEPT ![s].pc = "commit"]
                /\ db_lock' = s
                /\ UNCHANGED ret
    /\ UNCHANGED <<users, given, organizations, departments, teams, okrs,
                   okr_seq, session, msg>>

create_user_commit(s) ==
    /\ reg[s].pc = "commit"
    /\ LET r == reg[s].row
       IN  /\ users' = Append(users, NewUserRow(r.username, r.email, reg[s].password,
                                                 r.role, r.department_id, r.team_id))
           /\ given' = Append(given, [id |-> Len(users) + 1,
                                       password |-> reg[s].password, role |-> r.role])
    /\ reg' = [reg EXCEPT ![s] = [Idle EXCEPT !.value = "True"]]
    /\ ret' = Returned("create_user", Len(users) + 1, "True")
    /\ db_lock' = NoneId
    /\ UNCHANGED <<organizations, departments, teams, okrs, okr_seq, session, msg>>

\* The dict authenticate_user builds from the fetched row.
UserContext(u) ==
    [id |-> u.id, username |-> u.username, email |-> u.email, role |-> u.role,
     department_id |-> u.department_id, team_id |-> u.team_id]

\* authenticate_user: SELECT ... WHERE username = ?, fetchone, verify_password.
authenticate_user(username, password) ==
    LET found == SelectSeq(users, LAMBDA u : u.username = username)
    IN  IF found # <<>> /\ verify_password(password, found[1].password_hash)
        THEN UserContext(found[1])
        ELSE NoneUser

\* ------------------------------------------------------------------ session
\* init_database on an absent myokr.db, init_session_state on a new session.
Init ==
    /\ users = <<>>
    /\ given = <<>>
    /\ organizations = <<>>
    /\ departments = <<>>
    /\ teams = <<>>
    /\ okrs = <<>>
    /\ okr_seq = 0
    /\ session = [authenticated |-> FALSE, user |-> NoneUser]
    /\ ret = NoCall
    /\ msg = ""
    /\ reg = [s \in Sessions |-> Idle]
    /\ db_lock = NoneId

\* show_login_page, the Login button.
LoginClick(username, password) ==
    /\ ~session.authenticated
    /\ LET user == authenticate_user(username, password)
       IN  IF user # NoneUser
           THEN /\ session' = [authenticated |-> TRUE, user |-> user]
                /\ msg' = "Login successful!"
                /\ ret' = Returned("authenticate_user", user.id, "dict")
           ELSE /\ UNCHANGED session
                /\ msg' = "Invalid username or password"
                /\ ret' = Returned("authenticate_user", NoneId, "None")
    /\ UNCHANGED <<users, given, organizations, departments, teams, okrs,
                   okr_seq, reg, db_lock>>

\* A registration that puts the new user into team 1.
RegisterClickIntoTeam(username, email, password, role) ==
    /\ ~session.authenticated
    /\ create_user(username, email, password, role, NoneId, 1)
    /\ msg' = IF UniqueViolation(username, email)
              THEN "Username or email already exists"
              ELSE "Account created successfully! Please login."
    /\ UNCHANGED <<organizations, departments, teams, okrs, okr_seq, session,
                   reg, db_lock>>
\* show_login_page, the Register button: create_user without department or team.
RegisterClick(username, email, password, role) ==
    /\ ~session.authenticated
    /\ create_user(username, email, password, role, NoneId, NoneId)
    /\ msg' = IF UniqueViolation(username, email)
              THEN "Username or email already exists"
              ELSE "Account created successfully! Please login."
    /\ UNCHANGED <<organizations, departments, teams, okrs, okr_seq, session,
                   reg, db_lock>>

\* A logout that clears the flag and keeps the user.
LogoutClickKeepsUser ==
    /\ session.authenticated
    /\ session' = [session EXCEPT !.authenticated = FALSE]
    /\ msg' = ""
    /\ ret' = NoCall
    /\ UNCHANGED <<users, given, organizations, departments, teams, okrs,
                   okr_seq, reg, db_lock>>
\* show_main_app, the Logout button.
LogoutClick ==
    /\ session.authenticated
    /\ session' = [authenticated |-> FALSE, user |-> NoneUser]
    /\ msg' = ""
    /\ ret' = NoCall
    /\ UNCHANGED <<users, given, organizations, departments, teams, okrs,
                   okr_seq, reg, db_lock>>

\* ---------------------------------------------------------- hierarchy store
get_organizations == organizations
\* get_departments() and get_teams() as the handlers call them, without filter.
get_departments == departments
get_teams == teams

\* SELECT id, username, email, role FROM users WHERE team_id = ?
get_team_users(team_id) == SelectSeq(users, LAMBDA u : u.team_id = team_id)

\* {row[1]: row[0] for row in table}[name]: a later row with the same name
\* replaces an earlier one, so a name selects the last row that carries it.
IdByName(table, name) ==
    LET at == {i \in DOMAIN table : table[i].name = name}
    IN  table[CHOOSE i \in at : \A j \in at : j <= i].id
UserIdByName(table, username) ==
    LET at == {i \in DOMAIN table : table[i].username = username}
    IN  table[CHOOSE i \in at : \A j \in at : j <= i].id

Names(table) == {table[i].name : i \in DOMAIN table}

\* show_organization_setup's role test.
IsAdministratorLoose(user) == user.role # "User"
IsAdministrator(user) == user.role = "Admin"

\* show_organization_setup: for any role but Admin the page displays the error
\* and returns before a widget is built or a query is made; otherwise the
\* clicked button's handler runs.  (init_database's CREATE TABLE IF NOT EXISTS,
\* which main runs ahead of every page, is not counted as a call.)
show_organization_setup(Click) ==
    IF ~IsAdministrator(session.user)
    THEN /\ msg' = "Only administrators can manage organization structure."
         /\ ret' = NoCall
         /\ UNCHANGED <<organizations, departments, teams>>
    ELSE Click

\* The Create Organization button.
CreateOrganizationClick(org_name) ==
    /\ session.authenticated
    /\ show_organization_setup(
        IF org_name # ""
        THEN /\ Len(organizations) < MaxOrgs
             /\ organizations' = Append(organizations,
                    [id |-> Len(organizations) + 1, name |-> org_name])
             /\ ret' = Returned("INSERT INTO organizations", Len(organizations) + 1, "None")
             /\ msg' = "Organization created successfully!"
             /\ UNCHANGED <<departments, teams>>
        ELSE /\ ret' = Returned("get_organizations", NoneId, "list")
             /\ msg' = ""
             /\ UNCHANGED <<organizations, departments, teams>>)
    /\ UNCHANGED <<users, given, okrs, okr_seq, session, reg, db_lock>>

\* The Create Department button, built only when get_organizations() is not empty.
CreateDepartmentClick(dept_name, selected_org) ==
    /\ session.authenticated
    /\ show_organization_setup(
        /\ selected_org \in Names(get_organizations)
        /\ IF dept_name # "" /\ selected_org # ""
           THEN /\ Len(departments) < MaxDepts
                /\ departments' = Append(departments,
                       [id |-> Len(departments) + 1, name |-> dept_name,
                        organization_id |-> IdByName(get_organizations, selected_org)])
                /\ ret' = Returned("INSERT INTO departments", Len(departments) + 1, "None")
                /\ msg' = "Department created successfully!"
                /\ UNCHANGED <<organizations, teams>>
           ELSE /\ ret' = Returned("get_organizations", NoneId, "list")
                /\ msg' = ""
                /\ UNCHANGED <<organizations, departments, teams>>)
    /\ UNCHANGED <<users, given, okrs, okr_seq, session, reg, db_lock>>

\* The Create Team button, built only when get_departments() is not empty.
CreateTeamClick(team_name, selected_dept) ==
    /\ session.authenticated
    /\ show_organization_setup(
        /\ selected_dept \in Names(get_departments)
        /\ IF team_name # "" /\ selected_dept # ""
           THEN /\ Len(teams) < MaxTeams
                /\ teams' = Append(teams,
                       [id |-> Len(teams) + 1, name |-> team_name,
                        department_id |-> IdByName(get_departments, selected_dept)])
                /\ ret' = Returned("INSERT INTO teams", Len(teams) + 1, "None")
                /\ msg' = "Team created successfully!"
                /\ UNCHANGED <<organizations, departments>>
           ELSE /\ ret' = Returned("get_departments", NoneId, "list")
                /\ msg' = ""
                /\ UNCHANGED <<organizations, departments, teams>>)
    /\ UNCHANGED <<users, given, okrs, okr_seq, session, reg, db_lock>>

\* ------------------------------------------------------------ OKR repository
\* An INSERT that leaves the assigned_user_id column out.
create_okr_without_assignee(title, objective, key_results, team_id, assigned_user_id, created_by) ==
    /\ okrs' = Append(okrs,
           [id |-> okr_seq + 1, title |-> title, objective |-> objective,
            key_results |-> key_results, progress |-> 0, status |-> "Not Started",
            team_id |-> team_id, assigned_user_id |-> NoneId,
            created_by |-> created_by])
    /\ okr_seq' = okr_seq + 1
    /\ ret' = Returned("create_okr", okr_seq + 1, "None")
\* create_okr: one INSERT; progress and status take the column defaults.
create_okr(title, objective, key_results, team_id, assigned_user_id, created_by) ==
    /\ okrs' = Append(okrs,
           [id |-> okr_seq + 1, title |-> title, objective |-> objective,
            key_results |-> key_results, progress |-> 0, status |-> "Not Started",
            team_id |-> team_id, assigned_user_id |-> assigned_user_id,
            created_by |-> created_by])
    /\ okr_seq' = okr_seq + 1
    /\ ret' = Returned("create_okr", okr_seq + 1, "None")

\* An UPDATE that writes the progress column alone.
update_progress_only(okr_id, progress, status) ==
    /\ okrs' = [i \in DOMAIN okrs |->
                  IF okrs[i].id = okr_id
                  THEN [okrs[i] EXCEPT !.progress = progress]
                  ELSE okrs[i]]
    /\ ret' = Returned("update_okr_progress", okr_id, "None")
\* UPDATE okrs SET progress = ?, status = ? WHERE id = ?
update_okr_progress(okr_id, progress, status) ==
    /\ okrs' = [i \in DOMAIN okrs |->
                  IF okrs[i].id = okr_id
                  THEN [okrs[i] EXCEPT !.progress = progress, !.status = status]
                  ELSE okrs[i]]
    /\ ret' = Returned("update_okr_progress", okr_id, "None")

\* DELETE FROM okrs WHERE id = ?
delete_okr(okr_id) ==
    /\ okrs' = SelectSeq(okrs, LAMBDA o : o.id # okr_id)
    /\ ret' = Returned("delete_okr", okr_id, "None")

\* update_okr_progress and delete_okr statement by statement, for calls of
\* concurrent sessions, each on its own connection.  cursor.execute opens the
\* implicit transaction and takes SQLite's write lock, or raises
\* sqlite3.OperationalError (database is locked) when another connection kept
\* the lock for the whole busy timeout; conn.commit publishes the statement's
\* effect and frees the lock.
update_okr_progress_call(s, okr_id, progress, status) ==
    /\ reg[s].pc = "idle"
    /\ reg' = [reg EXCEPT ![s] = [Idle EXCEPT !.pc = "update_execute",
                                               !.okr_id = okr_id,
                                               !.progress = progress,
                                               !.status = status]]
    /\ UNCHANGED <<users, given, organizations, departments, teams, okrs,
                   okr_seq, session, ret, msg, db_lock>>

update_okr_progress_execute(s) ==
    /\ reg[s].pc = "update_execute"
    /\ IF WriteLockFree
       THEN /\ reg' = [reg EXCEPT ![s].pc = "update_commit"]
            /\ db_lock' = s
            /\ UNCHANGED ret
       ELSE /\ reg' = [reg EXCEPT ![s] = [Idle EXCEPT !.value = "OperationalError"]]
            /\ ret' = Returned("update_okr_progress", reg[s].okr_id, "OperationalError")
            /\ UNCHANGED db_lock
    /\ UNCHANGED <<users, given, organizations, departments, teams, okrs,
                   okr_seq, session, msg>>

update_okr_progress_commit(s) ==
    /\ reg[s].pc = "update_commit"
    /\ update_okr_progress(reg[s].okr_id, reg[s].progress, reg[s].status)
    /\ reg' = [reg EXCEPT ![s] = [Idle EXCEPT !.value = "None"]]
    /\ db_lock' = NoneId
    /\ UNCHANGED <<users, given, organizations, departments, teams, okr_seq,
                   session, msg>>

delete_okr_call(s, okr_id) ==
    /\ reg[s].pc = "idle"
    /\ reg' = [reg EXCEPT ![s] = [Idle EXCEPT !.pc = "delete_execute",
                                               !.okr_id = okr_id]]
    /\ UNCHANGED <<users, given, organizations, departments, teams, okrs,
                   okr_seq, session, ret, msg, db_lock>>

delete_okr_execute(s) ==
    /\ reg[s].pc = "delete_execute"
    /\ IF WriteLockFree
       THEN /\ reg' = [reg EXCEPT ![s].pc = "delete_commit"]
            /\ db_lock' = s
            /\ UNCHANGED ret
       ELSE /\ reg' = [reg EXCEPT ![s] = [Idle EXCEPT !.value = "OperationalError"]]
            /\ ret' = Returned("delete_okr", reg[s].okr_id, "OperationalError")
            /\ UNCHANGED db_lock
    /\ UNCHANGED <<users, given, organizations, departments, teams, okrs,
                   okr_seq, session, msg>>

delete_okr_commit(s) ==
    /\ reg[s].pc = "delete_commit"
    /\ delete_okr(reg[s].okr_id)
    /\ reg' = [reg EXCEPT ![s] = [Idle EXCEPT !.value = "None"]]
    /\ db_lock' = NoneId
    /\ UNCHANGED <<users, given, organizations, departments, teams, okr_seq,
                   session, msg>>

\* A joined column of a row that matched nothing.
NullRow == [id |-> NoneId, name |-> "NULL", username |-> "NULL"]

\* LEFT JOIN table ON <column> = table.id: the matching rows of the table, or
\* one NULL row when none matches.
JoinOn(table, id) ==
    LET hits == SelectSeq(table, LAMBDA t : t.id = id)
    IN  IF hits = <<>> THEN <<NullRow>> ELSE hits

RECURSIVE Flatten(_)
Flatten(seqs) == IF seqs = <<>> THEN <<>> ELSE Head(seqs) \o Flatten(Tail(seqs))

\* The rows the SELECT of get_okrs yields for one okrs row o: o.* with
\* u.username, c.username and t.name of the three LEFT JOINs.
JoinedRow(o) ==
    LET U == JoinOn(users, o.assigned_user_id)
        C == JoinOn(users, o.created_by)
        T == JoinOn(teams, o.team_id)
    IN  Flatten([a \in DOMAIN U |->
          Flatten([b \in DOMAIN C |->
            [k \in DOMAIN T |->
               [o |-> o, assigned_user |-> U[a].username,
                created_by_user |-> C[b].username, team_name |-> T[k].name]]])])

\* The SELECT of get_okrs without its WHERE clause.
JoinedOkrs(rows) == Flatten([i \in DOMAIN rows |-> JoinedRow(rows[i])])

\* The WHERE clause of get_okrs' team branch.
TeamFilterOnAssignee(team_id, o) == o.assigned_user_id = team_id
TeamFilter(team_id, o) == o.team_id = team_id

\* get_okrs: "if team_id" and "elif user_id" take None and 0 alike.
get_okrs(team_id, user_id) ==
    IF team_id # NoneId
    THEN JoinedOkrs(SelectSeq(okrs, LAMBDA o : TeamFilter(team_id, o)))
    ELSE IF user_id # NoneId
    THEN JoinedOkrs(SelectSeq(okrs, LAMBDA o : o.assigned_user_id = user_id))
    ELSE JoinedOkrs(okrs)

\* ------------------------------------------------------------------ My OKRs
\* The three Key Result inputs: the non-empty ones, in order.
KeyResultsEntered(kr_inputs) == SelectSeq(kr_inputs, LAMBDA kr : kr # "")

\* The test of the Create OKR button; selected_team and selected_user are ""
\* for None.
CreateOkrAcceptedWithoutKeyResults(title, objective, key_results, selected_team, selected_user) ==
    title # "" /\ objective # "" /\ selected_team # "" /\ selected_user # ""
CreateOkrAccepted(title, objective, key_results, selected_team, selected_user) ==
    /\ title # "" /\ objective # "" /\ key_results # <<>>
    /\ selected_team # "" /\ selected_user # ""

\* What the two selectboxes of the Create New OKR form can hold.
CreateOkrWidgets(selected_team, selected_user) ==
    IF get_teams = <<>>
    THEN selected_team = "" /\ selected_user = ""
    ELSE /\ selected_team \in Names(get_teams)
         /\ LET team_users == IF selected_team # ""
                              THEN get_team_users(IdByName(get_teams, selected_team))
                              ELSE <<>>
            IN  IF team_users = <<>>
                THEN selected_user = ""
                ELSE selected_user \in {team_users[i].username : i \in DOMAIN team_users}

\* show_my_okrs, the Create OKR button.
CreateOkrClick(title, objective, kr_inputs, selected_team, selected_user) ==
    /\ session.authenticated
    /\ CreateOkrWidgets(selected_team, selected_user)
    /\ LET key_results == KeyResultsEntered(kr_inputs)
       IN  IF CreateOkrAccepted(title, objective, key_results, selected_team, selected_user)
           THEN /\ create_okr(title, objective, key_results,
                              IdByName(get_teams, selected_team),
                              UserIdByName(get_team_users(IdByName(get_teams, selected_team)),
                                           selected_user),
                              session.user.id)
                /\ msg' = "OKR created successfully!"
           ELSE /\ msg' = "Please fill in all required fields"
                /\ ret' = Returned("get_teams", NoneId, "list")
                /\ UNCHANGED <<okrs, okr_seq>>
    /\ UNCHANGED <<users, given, organizations, departments, teams, session,
                   reg, db_lock>>

\* user_okrs of show_my_okrs.
MyOkrsUnfiltered == get_okrs(NoneId, NoneId)
MyOkrs == get_okrs(NoneId, session.user.id)

\* st.progress(okr[5] / 100) and st.slider(.., 0, 100, int(okr[5])) raise on a
\* value outside their range, which ends the script run: the buttons of row k
\* are reached only when rows 1..k pass.
InRange(progress) == SliderMin <= progress /\ progress <= SliderMax
PageReaches(rows, k) == k \in DOMAIN rows /\ \A j \in 1..k : InRange(rows[j].o.progress)

\* show_my_okrs, the Update button of the k-th listed OKR.
UpdateClick(k, new_progress, new_status) ==
    /\ session.authenticated
    /\ PageReaches(MyOkrs, k)
    /\ new_progress \in SliderMin..SliderMax
    /\ new_status \in Statuses
    /\ update_okr_progress(MyOkrs[k].o.id, new_progress, new_status)
    /\ msg' = "OKR updated!"
    /\ UNCHANGED <<users, given, organizations, departments, teams, okr_seq,
                   session, reg, db_lock>>

\* show_my_okrs, the Delete button of the k-th listed OKR.
DeleteClick(k) ==
    /\ session.authenticated
    /\ PageReaches(MyOkrs, k)
    /\ delete_okr(MyOkrs[k].o.id)
    /\ msg' = "OKR deleted!"
    /\ UNCHANGED <<users, given, organizations, departments, teams, okr_seq,
                   session, reg, db_lock>>

\* show_team_okrs.
ShowTeamOkrs ==
    /\ session.authenticated
    /\ IF session.user.team_id # NoneId
       THEN /\ ret' = Returned("get_okrs", session.user.team_id, "list")
            /\ msg' = IF get_okrs(session.user.team_id, NoneId) = <<>>
                      THEN "No team OKRs found." ELSE ""
       ELSE /\ ret' = NoCall
            /\ msg' = "You are not assigned to any team."
    /\ UNCHANGED <<users, given, organizations, departments, teams, okrs,
                   okr_seq, session, reg, db_lock>>

\* ---------------------------------------------------------------- analytics
BinLabels == {"0-25%", "26-50%", "51-75%", "76-100%"}

\* pd.cut(df['progress'], bins=[0, 25, 50, 75, 100], labels=[...]): intervals
\* closed on the right and open on the left; a value in none of them is NaN.
progress_bins(progress) ==
    CASE 0 < progress /\ progress <= 25   -> "0-25%"
      [] 25 < progress /\ progress <= 50  -> "26-50%"
      [] 50 < progress /\ progress <= 75  -> "51-75%"
      [] 75 < progress /\ progress <= 100 -> "76-100%"
      [] OTHER -> "NaN"

\* progress_bins.value_counts(): NaN is not counted.
progress_counts(all_okrs) ==
    [b \in BinLabels |->
        Cardinality({i \in DOMAIN all_okrs : progress_bins(all_okrs[i].o.progress) = b})]

\* show_analytics.
ShowAnalytics ==
    /\ session.authenticated
    /\ ret' = Returned("get_okrs", NoneId, "list")
    /\ msg' = IF get_okrs(NoneId, NoneId) = <<>>
              THEN "No OKRs available for analytics." ELSE ""
    /\ UNCHANGED <<users, given, organizations, departments, teams, okrs,
                   okr_seq, session, reg, db_lock>>

\* ------------------------------------------------- calls of the repository
CallCreateUser(username, email, password, role, department_id, team_id) ==
    /\ create_user(username, email, password, role, department_id, team_id)
    /\ msg' = ""
    /\ UNCHANGED <<organizations, departments, teams, okrs, okr_seq, session,
                   reg, db_lock>>

CallCreateOkr(title, objective, key_results, team_id, assigned_user_id, created_by) ==
    /\ create_okr(title, objective, key_results, team_id, assigned_user_id, created_by)
    /\ msg' = ""
    /\ UNCHANGED <<users, given, organizations, departments, teams, session,
                   reg, db_lock>>

CallUpdateOkrProgress(okr_id, progress, status) ==
    /\ update_okr_progress(okr_id, progress, status)
    /\ msg' = ""
    /\ UNCHANGED <<users, given, organizations, departments, teams, okr_seq,
                   session, reg, db_lock>>

CallDeleteOkr(okr_id) ==
    /\ delete_okr(okr_id)
    /\ msg' = ""
    /\ UNCHANGED <<users, given, organizations, departments, teams, okr_seq,
                   session, reg, db_lock>>

\* --------------------------------------------------------- inputs submitted
Usernames == {"alice", "bob"}
Emails == {"alice@x.com", "bob@x.com"}
Passwords == {"pw123", "wrong"}
EmailOf(username) == IF username = "alice" THEN "alice@x.com" ELSE "bob@x.com"

\* Registration, login and logout through the login page.
NextIdentity ==
    \/ \E u \in Usernames, e \in Emails, p \in Passwords, r \in {"User", "Admin"} :
          RegisterClick(u, e, p, r)
    \/ \E u \in Usernames \cup {"carol"}, p \in Passwords : LoginClick(u, p)
    \/ LogoutClick

SpecIdentity == Init /\ [][NextIdentity]_vars

\* The accounts create_user is called with: alice administers, bob is a member
\* of team 1 and dave leads it.
UserRoster ==
    { <<"alice", "alice@x.com", "pw123", "Admin", NoneId, NoneId>>,
      <<"bob", "bob@x.com", "pw123", "User", 1, 1>>,
      <<"dave", "dave@x.com", "pw123", "Team Lead", 1, 1>> }
RosterNames == {u[1] : u \in UserRoster}

\* The accounts of the application with teams: alice administers and is a
\* member of team 1, bob is a member of team 2.
AppRoster ==
    { <<"alice", "alice@x.com", "pw123", "Admin", 1, 1>>,
      <<"bob", "bob@x.com", "pw123", "User", 1, 2>> }

OrgNames == {"", "Acme"}
DeptNames == {"", "Eng"}
TeamNames == {"", "A", "B"}
Titles == {"", "Q1"}
Objectives == {"", "Grow"}
KeyResultInputs == { <<"", "", "">>, <<"A", "", "B">> }

\* The login page and Organization Setup, as the pages offer them.
NextSetup ==
    \/ \E u \in Usernames, r \in Roles : RegisterClick(u, EmailOf(u), "pw123", r)
    \/ \E u \in Usernames : LoginClick(u, "pw123")
    \/ LogoutClick
    \/ \E n \in OrgNames : CreateOrganizationClick(n)
    \/ \E n \in DeptNames, o \in OrgNames : CreateDepartmentClick(n, o)
    \/ \E n \in TeamNames, d \in DeptNames : CreateTeamClick(n, d)

SpecSetup == Init /\ [][NextSetup]_vars

\* The application with accounts that carry a team: create_user with its
\* team_id argument, then the pages.
NextApp ==
    \/ \E u \in AppRoster : CallCreateUser(u[1], u[2], u[3], u[4], u[5], u[6])
    \/ \E u \in Usernames : LoginClick(u, "pw123")
    \/ LogoutClick
    \/ CreateOrganizationClick("Acme")
    \/ CreateDepartmentClick("Eng", "Acme")
    \/ \E n \in TeamNames \ {""} : CreateTeamClick(n, "Eng")
    \/ \E t \in Titles, o \in Objectives, k \in KeyResultInputs,
          team \in TeamNames, user \in Usernames \cup {""} :
          okr_seq < MaxCreated /\ CreateOkrClick(t, o, k, team, user)
    \/ \E k \in 1..MaxCreated : UpdateClick(k, 100, "Completed")
    \/ \E k \in 1..MaxCreated : DeleteClick(k)

SpecApp == Init /\ [][NextApp]_vars

\* The rows create_okr is called with, and the values update_okr_progress is.
OkrRoster ==
    { <<"Q1", "Grow", <<"A", "B">>, 1, 2, 1>>,
      <<"Q2", "Ship", <<"A">>, 2, 1, 2>> }
ProgressInputs == {-10, 150}

\* The repository functions called directly, and the pages over what they stored.
Next ==
    \/ \E u \in UserRoster : CallCreateUser(u[1], u[2], u[3], u[4], u[5], u[6])
    \/ \E u \in RosterNames : LoginClick(u, "pw123")
    \/ LogoutClick
    \/ \E o \in OkrRoster :
          okr_seq < MaxOkrs /\ CallCreateOkr(o[1], o[2], o[3], o[4], o[5], o[6])
    \/ \E id \in 1..MaxOkrs, p \in ProgressInputs : CallUpdateOkrProgress(id, p, "In Progress")
    \/ \E id \in 1..MaxOkrs : CallDeleteOkr(id)
    \/ \E k \in 1..MaxOkrs : UpdateClick(k, 100, "Completed")
    \/ \E k \in 1..MaxOkrs : DeleteClick(k)
    \/ ShowTeamOkrs
    \/ ShowAnalytics

Spec == Init /\ [][Next]_vars

\* Registrations of concurrent sessions.
NextRegister ==
    \/ \E s \in Sessions, u \in Usernames, e \in Emails :
          create_user_call(s, u, e, "pw123", "User", NoneId, NoneId)
    \/ \E s \in Sessions : create_user_execute(s)
    \/ \E s \in Sessions : create_user_commit(s)

SpecRegister == Init /\ [][NextRegister]_vars

\* One browser session on a new database: the login page and the pages of
\* show_main_app.  My OKRs lists nothing while no OKR is stored, so it renders
\* no Update and no Delete button.
NextUI ==
    \/ \E u \in Usernames, r \in Roles : RegisterClick(u, EmailOf(u), "pw123", r)
    \/ \E u \in Usernames \cup {"carol"}, p \in Passwords : LoginClick(u, p)
    \/ LogoutClick
    \/ \E n \in OrgNames : CreateOrganizationClick(n)
    \/ \E n \in DeptNames, o \in OrgNames : CreateDepartmentClick(n, o)
    \/ \E n \in TeamNames, d \in DeptNames : CreateTeamClick(n, d)
    \/ \E t \in Titles, o \in Objectives, k \in KeyResultInputs,
          team \in TeamNames, user \in Usernames \cup {""} :
          okr_seq < MaxCreated /\ CreateOkrClick(t, o, k, team, user)
    \/ ShowTeamOkrs
    \/ ShowAnalytics

SpecUI == Init /\ [][NextUI]_vars

\* Updates and deletes of concurrent sessions on the OKRs stored before.
RaceUpdates == { <<30, "In Progress">>, <<70, "Completed">> }

NextRace ==
    \/ \E o \in OkrRoster :
          /\ okr_seq < MaxCreated
          /\ WriteLockFree
          /\ CallCreateOkr(o[1], o[2], o[3], o[4], o[5], o[6])
    \/ \E s \in Sessions, id \in 1..MaxCreated, u \in RaceUpdates :
          update_okr_progress_call(s, id, u[1], u[2])
    \/ \E s \in Sessions, id \in 1..MaxCreated : delete_okr_call(s, id)
    \/ \E s \in Sessions : update_okr_progress_execute(s)
    \/ \E s \in Sessions : update_okr_progress_commit(s)
    \/ \E s \in Sessions : delete_okr_execute(s)
    \/ \E s \in Sessions : delete_okr_commit(s)

SpecRace == Init /\ [][NextRace]_vars

\* ------------------------------------------------------------------- claims
UsersUnique ==
    \A i, j \in DOMAIN users :
        i # j => users[i].username # users[j].username /\ users[i].email # users[j].email

C5_AuthenticateExact ==
    /\ \A u \in Usernames \cup {"carol", ""}, p \in Passwords \cup {""} :
          LET c == authenticate_user(u, p)
              match == {i \in DOMAIN users :
                          users[i].username = u /\ given[i].password = p}
          IN  /\ (c # NoneUser) <=> (match # {})
              /\ c # NoneUser =>
                    \E i \in match : c.id = given[i].id /\ c.role = given[i].role
                                      /\ c.username = u
    /\ session.authenticated =>
          \E i \in DOMAIN users :
              /\ session.user.id = given[i].id
              /\ session.user.role = given[i].role
              /\ session.user.username = users[i].username
    /\ msg = "Invalid username or password" => ~session.authenticated

\* alice, registered second as Admin, is logged in; bob's password differs.
C5_Witness ==
    /\ session.authenticated
    /\ msg = "Login successful!"
    /\ session.user.role = "Admin"
    /\ session.user.id = 2
    /\ given[1].password # given[2].password

\* clamp(p, 0, 100)
Clamp(p) == IF p < SliderMin THEN SliderMin ELSE IF p > SliderMax THEN SliderMax ELSE p

OkrIds == {okrs[i].id : i \in DOMAIN okrs}
\* Every id the okrs table can hand out within the bounds.
AllOkrIds == 1..(MaxOkrs + MaxCreated)

\* C1: whatever progress p update_okr_progress is given for an existing OKR,
\* the progress stored for it is clamp(p, 0, 100), so every stored OKR has its
\* progress within [0, 100].
C1_ProgressClamped ==
    [][ /\ \A id \in OkrIds, p \in ProgressInputs \cup SliderMin..SliderMax, st \in Statuses :
              update_okr_progress(id, p, st) =>
                  \A i \in DOMAIN okrs' :
                      okrs'[i].id = id => okrs'[i].progress = Clamp(p)
        /\ \A i \in DOMAIN okrs' : InRange(okrs'[i].progress)
      ]_vars

\* The page offers Update and Delete for the OKR with this id.
Offered(id) == \E k \in DOMAIN MyOkrs : MyOkrs[k].o.id = id /\ PageReaches(MyOkrs, k)

\* A step in which the session user's Update or Delete ran.
MutatedByActor == msg' \in {"OKR updated!", "OKR deleted!"}

C3_TeamLeadOwnTeam ==
    [][ (session.authenticated /\ session.user.role = "Team Lead" /\ MutatedByActor) =>
            \A i \in DOMAIN okrs :
                okrs[i].team_id # session.user.team_id => okrs[i] \in Rows(okrs')
      ]_vars

\* C6: over OKRs whose progress lies in [0, 100] the four bucket counts add up
\* to the number of OKRs; progress 0 falls in the first bucket and 100 in the
\* last.
C6_BucketsCountAll ==
    LET all_okrs == get_okrs(NoneId, NoneId)
        counts == progress_counts(all_okrs)
    IN  (\A i \in DOMAIN all_okrs : InRange(all_okrs[i].o.progress)) =>
            /\ counts["0-25%"] + counts["26-50%"] + counts["51-75%"] + counts["76-100%"]
                 = Len(all_okrs)
            /\ \A i \in DOMAIN all_okrs :
                  /\ all_okrs[i].o.progress = 0 =>
                        progress_bins(all_okrs[i].o.progress) = "0-25%"
                  /\ all_okrs[i].o.progress = 100 =>
                        progress_bins(all_okrs[i].o.progress) = "76-100%"

\* The three tables of Organization Setup.
hierarchy == <<organizations, departments, teams>>
Denied ==
    /\ msg' = "Only administrators can manage organization structure."
    /\ ret' = NoCall
    /\ hierarchy' = hierarchy

\* C7: organizations, departments and teams change only in a step of a session
\* whose user is Admin; a click on Organization Setup by a session user of any
\* other role displays the refusal, makes no call on the store and leaves the
\* three tables as they were.
C7_SetupAdminOnly ==
    [][ /\ hierarchy' # hierarchy =>
              session.authenticated /\ session.user.role = "Admin"
        /\ (session.authenticated /\ session.user.role \in Roles \ {"Admin"}) =>
              /\ \A n \in OrgNames : CreateOrganizationClick(n) => Denied
              /\ \A n \in DeptNames, o \in OrgNames : CreateDepartmentClick(n, o) => Denied
              /\ \A n \in TeamNames, d \in DeptNames : CreateTeamClick(n, d) => Denied
      ]_vars

\* A Manager has just been refused on Organization Setup, where an Admin had
\* created an organization, a department and a team before.
C7_Witness ==
    /\ session.authenticated
    /\ session.user.role = "Manager"
    /\ msg = "Only administrators can manage organization structure."
    /\ Len(organizations) = 1 /\ Len(departments) = 1 /\ Len(teams) = 1

\* C8: for every team id, get_okrs(team_id) is get_okrs() restricted to the
\* rows of that team, in the same order: every OKR of the team is in it once,
\* and no OKR of another team is.
C8_ListForTeam ==
    \A team_id \in 1..(MaxTeams + 1) :
        LET all_okrs == get_okrs(NoneId, NoneId)
            team_okrs == get_okrs(team_id, NoneId)
        IN  /\ team_okrs = SelectSeq(all_okrs, LAMBDA r : r.o.team_id = team_id)
            /\ \A i, j \in DOMAIN team_okrs :
                  team_okrs[i].o.id = team_okrs[j].o.id => i = j
            /\ \A o \in Rows(okrs) :
                  (o.team_id = team_id) <=> (\E k \in DOMAIN team_okrs : team_okrs[k].o = o)

\* Teams 1 and 2 exist and an OKR of team 1, assigned to user 2, is stored.
C8_Witness ==
    /\ Len(teams) = 2
    /\ \E o \in Rows(okrs) : o.team_id = 1 /\ o.assigned_user_id = 2
    /\ get_okrs(1, NoneId) # <<>>
    /\ get_okrs(2, NoneId) = <<>>

\* C9: update_okr_progress or delete_okr called with an id no stored OKR has
\* returns something other than what it returns on success, and leaves okrs
\* unchanged.
C9_MissingIdReported ==
    [][ (ret'.fn \in {"update_okr_progress", "delete_okr"} /\ ret'.arg \notin OkrIds) =>
            /\ ret'.value # "None"
            /\ okrs' = okrs
      ]_vars

OkrById(table, id) == CHOOSE o \in Rows(table) : o.id = id

\* C11: under every interleaving of concurrent update and delete calls, each
\* call takes effect at one step or not at all: a step that changes a stored
\* OKR writes the progress and the status of one committing update call
\* together, a step that removes an OKR is the commit of a delete of that id, an
\* id appears only by being newly created (an update after a delete never
\* re-creates the record), and so every stored pair is the created one or the
\* pair of a single update call.
C11_RaceSerial ==
    [][ /\ \A s \in Sessions :
              reg[s].pc \in {"update_commit", "delete_commit"} => db_lock = s
        /\ \A o \in Rows(okrs) :
              \/ <<o.progress, o.status>> = <<0, "Not Started">>
              \/ <<o.progress, o.status>> \in RaceUpdates
        /\ \A id \in AllOkrIds :
              /\ (id \notin OkrIds /\ id \in OkrIds') =>
                     (okr_seq' = okr_seq + 1 /\ id = okr_seq')
              /\ (id \in OkrIds /\ id \notin OkrIds') =>
                     \E s \in Sessions : /\ reg[s].pc = "delete_commit"
                                         /\ reg[s].okr_id = id
                                         /\ reg'[s].pc = "idle"
              /\ (id \in OkrIds /\ id \in OkrIds'
                    /\ OkrById(okrs, id) # OkrById(okrs', id)) =>
                     \E s \in Sessions :
                        /\ reg[s].pc = "update_commit"
                        /\ reg[s].okr_id = id
                        /\ reg'[s].pc = "idle"
                        /\ OkrById(okrs', id) =
                              [OkrById(okrs, id) EXCEPT !.progress = reg[s].progress,
                                                        !.status = reg[s].status]
      ]_vars

\* Session 2's delete of OKR 1 has committed and removed it while session 1's
\* update of the same OKR, now holding the write lock, is about to commit.
C11_Witness ==
    /\ okr_seq >= 1
    /\ 1 \notin OkrIds
    /\ reg[2].pc = "idle" /\ reg[2].value = "None"
    /\ ret = Returned("delete_okr", 1, "None")
    /\ reg[1].pc = "update_commit" /\ reg[1].okr_id = 1
    /\ db_lock = 1

MainAppStep ==
    \/ LogoutClick
    \/ \E n \in OrgNames : CreateOrganizationClick(n)
    \/ \E n \in DeptNames, o \in OrgNames : CreateDepartmentClick(n, o)
    \/ \E n \in TeamNames, d \in DeptNames : CreateTeamClick(n, d)
    \/ \E t \in Titles, o \in Objectives, k \in KeyResultInputs,
          team \in TeamNames, user \in Usernames \cup {""} :
          CreateOkrClick(t, o, k, team, user)
    \/ ShowTeamOkrs
    \/ ShowAnalytics

\* C13: the session is authenticated exactly when it holds a user; it becomes
\* authenticated only by a login whose authenticate_user call returned a
\* context, which is then the session's user; logout resets both; the user
\* changes at no other step; and the pages of the main application act only
\* while the session is authenticated.
C13_SessionConsistent ==
    [][ /\ session.authenticated <=> session.user # NoneUser
        /\ session'.authenticated <=> session'.user # NoneUser
        /\ (~session.authenticated /\ session'.authenticated) =>
              /\ ret'.fn = "authenticate_user" /\ ret'.value = "dict"
              /\ \E u \in Usernames \cup {"carol"}, p \in Passwords :
                    /\ LoginClick(u, p)
                    /\ authenticate_user(u, p) # NoneUser
                    /\ session'.user = authenticate_user(u, p)
        /\ (ret'.fn = "authenticate_user" /\ ret'.value = "None") =>
              session' = session
        /\ (session.authenticated /\ ~session'.authenticated) =>
              LogoutClick /\ session'.user = NoneUser
        /\ (session.authenticated /\ session'.authenticated) =>
              session'.user = session.user
        /\ MainAppStep => session.authenticated
        /\ (hierarchy' # hierarchy \/ okrs' # okrs) => session.authenticated
      ]_vars

\* Both users are registered and bob's login has just succeeded: the session
\* holds the context authenticate_user returned.
C13_Witness ==
    /\ Len(users) = 2
    /\ session.authenticated
    /\ session.user.username = "bob"
    /\ msg = "Login successful!"
    /\ ret = Returned("authenticate_user", session.user.id, "dict")

\* C14: from an empty database, with the register form, login, logout,
\* organization setup and the My OKRs page as the only operations, no user
\* has a team or a department, every team's member list is empty, no input
\* the Create OKR form can hold passes its test, My OKRs offers no Update and
\* no Delete, and no OKR is ever stored.
C14_NoOkrThroughUI ==
    /\ \A u \in Rows(users) : u.team_id = NoneId /\ u.department_id = NoneId
    /\ \A t \in Rows(teams) : get_team_users(t.id) = <<>>
    /\ \A t \in Titles, o \in Objectives, k \in KeyResultInputs,
          team \in TeamNames, user \in Usernames \cup {""} :
          CreateOkrWidgets(team, user) =>
              ~CreateOkrAccepted(t, o, KeyResultsEntered(k), team, user)
    /\ session.authenticated =>
          \A k \in 1..MaxOkrs :
              /\ ~PageReaches(MyOkrs, k)
              /\ ~ENABLED UpdateClick(k, 100, "Completed")
              /\ ~ENABLED DeleteClick(k)
    /\ okrs = <<>>
    /\ okr_seq = 0

\* Both users are registered, both teams exist, and the logged-in user's
\* Create OKR click has just been refused.
C14_Witness ==
    /\ Len(users) = 2
    /\ Len(teams) = 2
    /\ session.authenticated
    /\ msg = "Please fill in all required fields"
    /\ okrs = <<>>

====
